---- MODULE Spec2Model ----
(***************************************************************************)
(* The .NET domain of sphinxcontrib/dotnetdomain.py: the object registry   *)
(* (domaindata['dn']['objects']), registration of declarations             *)
(* (DotNetObject.add_target_and_index), document eviction                  *)
(* (DotNetDomain.clear_doc), reference lookup (DotNetDomain.find_obj,      *)
(* resolve_xref, resolve_any_xref, DotNetXRefRole.process_link) and the    *)
(* scope of nested declarations (DotNetObject.handle_signature,            *)
(* DotNetObjectNested.before_content and after_content).                   *)
(*                                                                         *)
(* A Python string is a sequence of one-character strings, so that         *)
(* '.'.join, str.endswith and slicing are computed on characters.          *)
(* A Python dict is a sequence of entries in iteration order: assigning    *)
(* to an existing key keeps its position, a new key goes to the end,       *)
(* deleting a key closes the gap.                                          *)
(***************************************************************************)
EXTENDS Integers, Sequences, FiniteSets, TLC

VARIABLES
    objects,    \* domaindata['dn']['objects']: entries [name, doc, typ]
    docname,    \* env.docname: the document being read, None before the first
    ids,        \* document.ids of the doctree of the document being read
    warnings,   \* what reporter.warning was called with, in order
    ndecl,      \* number of directives processed so far
    ref_context, \* env.ref_context: 'dn:prefixes' and 'dn:prefix'
    running,    \* the directives whose content is being parsed, outermost first
    last        \* the handler that ran last: its arguments, locals and result

vars == <<objects, docname, ids, warnings, ndecl, ref_context, running, last>>

(***************************************************************************)
(* Bounds of the model.                                                    *)
(***************************************************************************)
MaxDecls == 3

(***************************************************************************)
(* Values.                                                                 *)
(***************************************************************************)
None == <<"None">>

\* None where a document name or a type name is expected.
NoDoc == "None"

NoType == "None"

str_T == <<"T">>

str_A == <<"A">>

str_AB == <<"A", ".", "B">>

str_AT == <<"A", ".", "T">>

str_BT == <<"B", ".", "T">>

str_ABT == <<"A", ".", "B", ".", "T">>

\* Full names handed to add_target_and_index (name[0]).
FullNames == {str_T, str_AT, str_ABT}

\* env.docname of the document being read.
Docs == {"d1", "d2"}

\* Directive names used in the declarations (self.objtype).
DeclTypes == {"method", "meth", "field"}

\* node['dn:prefix'] of a reference.
Prefixes == {None, str_A, str_AB}

\* Reference targets.
Targets == {str_T, str_BT}

\* Role names used in the references (obj_type of resolve_xref).
RoleTypes == {"meth", "method", "field"}

(***************************************************************************)
(* The kinds of the domain: short_name and long_name of each class of      *)
(* _domain_types, in the order of the list.                                *)
(***************************************************************************)
domain_types ==
    << [short_name |-> "ns",     long_name |-> "namespace"],
       [short_name |-> "cls",    long_name |-> "class"],
       [short_name |-> "struct", long_name |-> "structure"],
       [short_name |-> "iface",  long_name |-> "interface"],
       [short_name |-> "del",    long_name |-> "delegate"],
       [short_name |-> "enum",   long_name |-> "enumeration"],
       [short_name |-> "meth",   long_name |-> "method"],
       [short_name |-> "prop",   long_name |-> "property"],
       [short_name |-> "ctor",   long_name |-> "constructor"],
       [short_name |-> "field",  long_name |-> "field"],
       [short_name |-> "event",  long_name |-> "event"],
       [short_name |-> "op",     long_name |-> "operator"] >>

\* DotNetDomain.directives: long and short name of every kind.
directives ==
    {domain_types[i].long_name : i \in DOMAIN domain_types}
        \cup {domain_types[i].short_name : i \in DOMAIN domain_types}

\* The keys of DotNetDomain.object_types (list(self.object_types)).
object_types == {domain_types[i].long_name : i \in DOMAIN domain_types}

\* ObjType(...).roles of the kind at index i: get_type() passes short_name,
\* long_name and 'obj'.
get_type_roles(i) ==
    {domain_types[i].short_name, domain_types[i].long_name, "obj"}

\* A table that maps a role to the name it was given under only.
objtypes_for_role_own_name(role) == {role}

\* self._role2type.get(role) as built by DotNetDomain.__init__: for every
\* kind having the role, the kind's short name and its long name.  The
\* list is used for membership only, so it is kept as a set.
objtypes_for_role(role) ==
    UNION {{domain_types[i].short_name, domain_types[i].long_name} :
           i \in {j \in DOMAIN domain_types : role \in get_type_roles(j)}}

\* The short_name of the directive class registered under a directive name.
short_name(objtype) ==
    LET i == CHOOSE j \in DOMAIN domain_types :
                 objtype \in {domain_types[j].short_name,
                              domain_types[j].long_name}
    IN domain_types[i].short_name

(***************************************************************************)
(* Strings.                                                                *)
(***************************************************************************)
\* '.'.join([prefix, name])
DotJoin(prefix, name) == prefix \o <<".">> \o name

\* s.endswith(suffix)
EndsWith(s, suffix) ==
    /\ Len(s) >= Len(suffix)
    /\ SubSeq(s, Len(s) - Len(suffix) + 1, Len(s)) = suffix

(***************************************************************************)
(* The dict of objects.                                                    *)
(***************************************************************************)
\* name in objects
Has(objs, name) == \E i \in DOMAIN objs : objs[i].name = name

\* objects[name], for a name in objects
Get(objs, name) == objs[CHOOSE i \in DOMAIN objs : objs[i].name = name]

\* objects[name] = (doc, typ)
Put(objs, name, doc, typ) ==
    LET e == [name |-> name, doc |-> doc, typ |-> typ]
    IN IF Has(objs, name)
       THEN [i \in DOMAIN objs |-> IF objs[i].name = name THEN e ELSE objs[i]]
       ELSE Append(objs, e)


\* clear_doc with the comparison inverted: the other documents are evicted.
clear_doc_others(objs, doc) ==
    LET Keep(e) == e.doc = doc
    IN SelectSeq(objs, Keep)

\* DotNetDomain.clear_doc: delete every entry whose document is docname.
clear_doc(objs, doc) ==
    LET Keep(e) == e.doc # doc
    IN SelectSeq(objs, Keep)

(***************************************************************************)
(* DotNetObject.add_target_and_index.                                      *)
(***************************************************************************)
\* target_name = '{0}-{1}'.format(self.short_name, full_name)
target_name(objtype, full_name) == <<short_name(objtype), "-">> \o full_name

\* The try block with the lookup failing for every name: never a warning.
duplicate_warning_silent(objs, full_name) == << >>

\* The try block: the warning for a name found in objects, with the type
\* and the document of the entry found; nothing on KeyError.
duplicate_warning(objs, full_name) ==
    IF Has(objs, full_name)
    THEN << [typ  |-> Get(objs, full_name).typ,
             name |-> full_name,
             doc  |-> Get(objs, full_name).doc] >>
    ELSE << >>

\* The assignment done on KeyError only: an entry found is left as it is.
update_objects_first_wins(objs, full_name, doc, objtype) ==
    IF Has(objs, full_name) THEN objs ELSE Put(objs, full_name, doc, objtype)

\* The finally block: objects[full_name] = (self.env.docname, self.objtype)
update_objects(objs, full_name, doc, objtype) ==
    Put(objs, full_name, doc, objtype)

(***************************************************************************)
(* DotNetDomain.find_obj.                                                  *)
(***************************************************************************)
\* The results: the empty list, None, or (newname, objects.get(newname)).
ReturnEmptyList ==
    [tag |-> "[]", name |-> None, doc |-> NoDoc, typ |-> NoType]

ReturnNone ==
    [tag |-> "None", name |-> None, doc |-> NoDoc, typ |-> NoType]

ReturnFound(objs, newname) ==
    IF Has(objs, newname)
    THEN [tag |-> "found", name |-> newname,
          doc |-> Get(objs, newname).doc, typ |-> Get(objs, newname).typ]
    ELSE [tag |-> "found", name |-> newname, doc |-> NoDoc, typ |-> NoType]

\* find_obj without the test for '()': the name is looked up as given.
skip_parens_none(name) == name

\* if name[-2:] == '()': name = name[:-2]
skip_parens(name) ==
    IF Len(name) >= 2 /\ SubSeq(name, Len(name) - 1, Len(name)) = <<"(", ")">>
    THEN SubSeq(name, 1, Len(name) - 2)
    ELSE name

\* Truth value of a prefix: neither None nor the empty string.
Truthy(prefix) == prefix # None /\ prefix # << >>

\* The names of objects that end with '.' + name, in iteration order.
suffix_matches(objs, name) ==
    LET Match(e) == EndsWith(e.name, <<".">> \o name)
        found == SelectSeq(objs, Match)
    IN [i \in DOMAIN found |-> found[i].name]

\* matches.pop(0): the first match instead of the last.
suffix_scan_first(objs, name) ==
    LET matches == suffix_matches(objs, name)
    IN IF matches = << >> THEN None ELSE matches[1]

\* newname = matches.pop(); IndexError leaves newname None.
suffix_scan(objs, name) ==
    LET matches == suffix_matches(objs, name)
    IN IF matches = << >> THEN None ELSE matches[Len(matches)]

\* The branch searchorder == 1 with the first two tests in the other order.
exact_search_absolute_first(objs, prefix, name, fullname, types) ==
    IF Has(objs, name) /\ Get(objs, name).typ \in types
    THEN name
    ELSE IF Truthy(prefix) /\ Has(objs, fullname)
                /\ Get(objs, fullname).typ \in types
         THEN fullname
         ELSE suffix_scan(objs, name)

\* The branch searchorder == 1.
exact_search(objs, prefix, name, fullname, types) ==
    IF Truthy(prefix) /\ Has(objs, fullname)
           /\ Get(objs, fullname).typ \in types
    THEN fullname
    ELSE IF Has(objs, name) /\ Get(objs, name).typ \in types
         THEN name
         ELSE suffix_scan(objs, name)

\* The else branch with the two tests in the other order.
default_search_scope_first(objs, prefix, name, fullname) ==
    IF Truthy(prefix) /\ Has(objs, fullname)
    THEN fullname
    ELSE IF Has(objs, name)
         THEN name
         ELSE None

\* The else branch falling back to the suffix scan, as searchorder 1 does.
default_search_with_scan(objs, prefix, name, fullname) ==
    IF Has(objs, name)
    THEN name
    ELSE IF Truthy(prefix) /\ Has(objs, fullname)
         THEN fullname
         ELSE suffix_scan(objs, name)

\* The else branch (searchorder 0).
default_search(objs, prefix, name, fullname) ==
    IF Has(objs, name)
    THEN name
    ELSE IF Truthy(prefix) /\ Has(objs, fullname)
         THEN fullname
         ELSE None

find_obj(objs, prefix, name_, obj_type, searchorder) ==
    LET name == skip_parens(name_)
        types == IF obj_type # NoType
                 THEN objtypes_for_role(obj_type)
                 ELSE object_types
        fullname == IF prefix # None THEN DotJoin(prefix, name) ELSE name
        newname == IF searchorder = 1
                   THEN exact_search(objs, prefix, name, fullname, types)
                   ELSE default_search(objs, prefix, name, fullname)
    IN IF name = << >>
       THEN ReturnEmptyList
       ELSE IF newname = None
            THEN ReturnNone
            ELSE ReturnFound(objs, newname)

\* find_obj keeping what it found under the name it was asked for.
objects_after_find_obj_memo(objs, name, ret) ==
    IF ret.tag = "found" THEN Put(objs, name, ret.doc, ret.typ) ELSE objs

\* self.data['objects'] when find_obj returns: the method tests membership,
\* calls get and iterates, and assigns to no key.
objects_after_find_obj(objs, name, ret) == objs

(***************************************************************************)
(* DotNetXRefRole.process_link.                                            *)
(***************************************************************************)
RECURSIVE lstrip(_, _)
\* s.lstrip(c)
lstrip(s, c) ==
    IF s # << >> /\ Head(s) = c THEN lstrip(Tail(s), c) ELSE s

\* s.rfind(c): the index, counted from 0, of the last c; -1 without any.
rfind(s, c) ==
    LET at == {i \in DOMAIN s : s[i] = c}
    IN IF at = {} THEN -1
       ELSE (CHOOSE i \in at : \A j \in at : j <= i) - 1

\* s[n:]
SliceFrom(s, n) == SubSeq(s, n + 1, Len(s))

\* The title and the target that process_link returns.  The call of the
\* base class hands title and target back as they are (the targets here
\* hold no whitespace to normalise).
process_link(has_explicit_title, title, target) ==
    IF ~has_explicit_title
    THEN LET stripped == lstrip(title, ".")
             tilde == stripped # << >> /\ Head(stripped) = "~"
             shown == IF tilde THEN SliceFrom(stripped, 1) ELSE stripped
             dot == rfind(shown, ".")
         IN [title  |-> IF tilde /\ dot # -1
                        THEN SliceFrom(shown, dot + 1)
                        ELSE shown,
             target |-> lstrip(target, "~")]
    ELSE IF title # target
         THEN [title  |-> title \o <<"<">> \o target \o <<">">>,
               target |-> title \o <<"<">> \o target \o <<">">>]
         ELSE [title |-> title, target |-> target]

(***************************************************************************)
(* DotNetDomain.resolve_xref and DotNetDomain.resolve_any_xref.            *)
(***************************************************************************)
\* make_refnode(builder, doc, obj_doc_name, obj_name, contnode, obj_name)
ReturnRefnode(obj_doc_name, obj_name) ==
    [tag |-> "refnode", name |-> obj_name, doc |-> obj_doc_name,
     typ |-> NoType]

\* An exception that leaves the method.
Raise(exception) ==
    [tag |-> exception, name |-> None, doc |-> NoDoc, typ |-> NoType]

\* resolve_xref: unpacking [] raises ValueError and unpacking None raises
\* TypeError, both caught.
resolve_xref(objs, prefix, target, obj_type, refspecific) ==
    LET searchorder == IF refspecific THEN 1 ELSE 0
        found == find_obj(objs, prefix, target, obj_type, searchorder)
    IN IF found.tag = "found" /\ found.doc # NoDoc
       THEN ReturnRefnode(found.doc, found.name)
       ELSE ReturnNone

\* self.role_for_objtype(objtype): the first role of the ObjType stored in
\* object_types under objtype, None for a name that is no key of it.
role_for_objtype(objtype) ==
    IF objtype \in object_types THEN short_name(objtype) ELSE NoType

\* resolve_any_xref: [] when find_obj returns None; the unpacking of the
\* empty list and 'dn:' + None are outside any try.
resolve_any_xref(objs, prefix, target) ==
    LET match == find_obj(objs, prefix, target, NoType, 1)
    IN IF match.tag = "None"
       THEN ReturnEmptyList
       ELSE IF match.tag = "[]"
            THEN Raise("ValueError")
            ELSE IF role_for_objtype(match.typ) = NoType
                 THEN Raise("TypeError")
                 ELSE [tag |-> "results", name |-> match.name,
                       doc |-> match.doc,
                       typ |-> role_for_objtype(match.typ)]

(***************************************************************************)
(* The state machine.                                                      *)
(***************************************************************************)
NoCall ==
    [op |-> "none", prefix |-> None, name |-> None, typ |-> NoType,
     doc |-> NoDoc, order |-> 0, text |-> None, ret |-> ReturnNone]

\* env.ref_context without the keys of the domain: has_prefixes tells
\* whether the key 'dn:prefixes' is present, prefix is what
\* ref_context.get('dn:prefix') returns.
NoContext == [has_prefixes |-> FALSE, prefixes |-> << >>, prefix |-> None]

Init ==
    /\ objects = << >>
    /\ docname = NoDoc
    /\ ids = {}
    /\ warnings = << >>
    /\ ndecl = 0
    /\ ref_context = NoContext
    /\ running = << >>
    /\ last = NoCall

\* A behaviour follows the build up to one lookup: find_obj changes nothing
\* but the record of the last call, so the registries reached are the same
\* as when the build went on after it.
Building == last.op \notin {"find_obj", "resolve_xref", "resolve_any_xref"}

\* The host starts reading document doc, between directives: it evicts the
\* document (clear_doc) and parses it into a new doctree, whose ids are
\* empty, with the env.ref_context that it emptied after the document
\* before.
ReadDoc(doc) ==
    /\ Building
    /\ running = << >>
    /\ objects' = clear_doc(objects, doc)
    /\ docname' = doc
    /\ ids' = {}
    /\ ref_context' = NoContext
    /\ last' = [NoCall EXCEPT !.op = "clear_doc", !.doc = doc]
    /\ UNCHANGED <<warnings, ndecl, running>>

\* A directive objtype of the document being read registers full_name.
\* The attributes set on signode and the entry appended to indexnode are
\* the directive's own output nodes, which no handler reads back.
AddTargetAndIndex(full_name, objtype) ==
    /\ Building
    /\ docname # NoDoc
    /\ ndecl < MaxDecls
    /\ IF target_name(objtype, full_name) \notin ids
       THEN /\ ids' = ids \cup {target_name(objtype, full_name)}
            /\ warnings' = warnings \o duplicate_warning(objects, full_name)
            /\ objects' = update_objects(objects, full_name, docname, objtype)
       ELSE UNCHANGED <<ids, warnings, objects>>
    /\ ndecl' = ndecl + 1
    /\ last' = [NoCall EXCEPT !.op = "add_target_and_index",
                              !.name = full_name, !.typ = objtype,
                              !.doc = docname]
    /\ UNCHANGED <<docname, ref_context, running>>

\* A reference is looked up.
FindObj(prefix, name, obj_type, searchorder) ==
    /\ Building
    /\ last' = [op |-> "find_obj", prefix |-> prefix, name |-> name,
                typ |-> obj_type, doc |-> NoDoc, order |-> searchorder,
                text |-> name,
                ret |-> find_obj(objects, prefix, name, obj_type, searchorder)]
    /\ objects' = objects_after_find_obj(objects, name, last'.ret)
    /\ UNCHANGED <<docname, ids, warnings, ndecl, ref_context, running>>

Next ==
    \/ \E doc \in Docs : ReadDoc(doc)
    \/ \E full_name \in FullNames, objtype \in DeclTypes :
           AddTargetAndIndex(full_name, objtype)
    \/ \E prefix \in Prefixes, name \in Targets, obj_type \in RoleTypes,
          searchorder \in {0, 1} :
           FindObj(prefix, name, obj_type, searchorder)

Spec == Init /\ [][Next]_vars

(***************************************************************************)
(* Resolution of references: the three entry points, with targets that     *)
(* carry '()' or are empty and with the reference operators '~' and '.'.   *)
(***************************************************************************)
str_Parens == <<"(", ")">>

\* The documents read.
ResolveDocs == {"d1"}

\* Targets handed to find_obj and to resolve_any_xref.
ParenTargets ==
    {str_T, str_BT, str_T \o str_Parens, str_T \o str_Parens \o str_Parens,
     << >>, str_Parens}

\* obj_type of find_obj: a role name, or None.
KindFilters == RoleTypes \cup {NoType}

\* What is written in a role, without an explicit title.
RoleTexts == {str_T, <<"~">> \o str_T, <<".">> \o str_T, str_BT}

\* The pending_xref nodes of the roles: reftarget as process_link returns
\* it, and no attribute refspecific.
RoleNodes ==
    {[text |-> t, target |-> process_link(FALSE, t, t).target,
      refspecific |-> FALSE] : t \in RoleTexts}

\* A reference made by a role of the domain is resolved.
ResolveXref(prefix, node, obj_type) ==
    /\ Building
    /\ last' = [op |-> "resolve_xref", prefix |-> prefix,
                name |-> node.target, typ |-> obj_type, doc |-> NoDoc,
                order |-> IF node.refspecific THEN 1 ELSE 0,
                text |-> node.text,
                ret |-> resolve_xref(objects, prefix, node.target, obj_type,
                                     node.refspecific)]
    /\ objects' = objects_after_find_obj(objects, node.target,
                      find_obj(objects, prefix, node.target, obj_type,
                               last'.order))
    /\ UNCHANGED <<docname, ids, warnings, ndecl, ref_context, running>>

\* A reference made by the role 'any' is resolved.
ResolveAnyXref(prefix, target) ==
    /\ Building
    /\ last' = [op |-> "resolve_any_xref", prefix |-> prefix,
                name |-> target, typ |-> NoType, doc |-> NoDoc, order |-> 1,
                text |-> target,
                ret |-> resolve_any_xref(objects, prefix, target)]
    /\ objects' = objects_after_find_obj(objects, target,
                      find_obj(objects, prefix, target, NoType, 1))
    /\ UNCHANGED <<docname, ids, warnings, ndecl, ref_context, running>>

NextResolve ==
    \/ \E doc \in ResolveDocs : ReadDoc(doc)
    \/ \E full_name \in FullNames, objtype \in DeclTypes :
           AddTargetAndIndex(full_name, objtype)
    \/ \E prefix \in Prefixes, name \in ParenTargets, obj_type \in KindFilters,
          searchorder \in {0, 1} :
           FindObj(prefix, name, obj_type, searchorder)
    \/ \E prefix \in Prefixes, node \in RoleNodes, obj_type \in RoleTypes :
           ResolveXref(prefix, node, obj_type)
    \/ \E prefix \in Prefixes, target \in ParenTargets :
           ResolveAnyXref(prefix, target)

SpecResolve == Init /\ [][NextResolve]_vars

(***************************************************************************)
(* DotNetObject.parse_signature, for signatures written with letters,      *)
(* '.', ' ', '(' and ')'.                                                  *)
(***************************************************************************)
\* The characters that [\w\_\-] matches: letters, digits, '_' and '-'.
WordChars ==
    {"A", "B", "C", "D", "E", "F", "G", "H", "I", "J", "K", "L", "M",
     "N", "O", "P", "Q", "R", "S", "T", "U", "V", "W", "X", "Y", "Z",
     "a", "b", "c", "d", "e", "f", "g", "h", "i", "j", "k", "l", "m",
     "n", "o", "p", "q", "r", "s", "t", "u", "v", "w", "x", "y", "z",
     "0", "1", "2", "3", "4", "5", "6", "7", "8", "9", "_", "-"}

\* The characters that \s matches and str.strip removes.
Whitespace == {" "}

RECURSIVE rstrip(_)
\* s.rstrip()
rstrip(s) ==
    IF s # << >> /\ s[Len(s)] \in Whitespace
    THEN rstrip(SubSeq(s, 1, Len(s) - 1))
    ELSE s

RECURSIVE lstrip_space(_)
\* s.lstrip()
lstrip_space(s) ==
    IF s # << >> /\ Head(s) \in Whitespace THEN lstrip_space(Tail(s)) ELSE s

\* s.strip()
strip(s) == rstrip(lstrip_space(s))

\* %(name)s matches the whole of s.  The optional type part of the pattern
\* (dimension, generic, indexer) needs a '`' or a closing '>', '}' or ']',
\* which the signatures here do not hold, so a name is one or more of
\* [\w\_\-].
IsName(s) == s # << >> /\ \A i \in DOMAIN s : s[i] \in WordChars

\* (?:\#ctor|%(name)s) matches the whole of s.
IsConstructorMember(s) == s = <<"#", "c", "t", "o", "r">> \/ IsName(s)

\* The names under which the subclasses of DotNetObjectNested are
\* registered as directives.
nested_types ==
    {"ns", "namespace", "cls", "class", "struct", "structure",
     "iface", "interface", "del", "delegate", "enum", "enumeration"}

\* The names under which DotNetConstructor is registered.
constructor_types == {"ctor", "constructor"}

\* No match: parse_signature raises ValueError.
NoSignature ==
    [ok |-> FALSE, prefix |-> None, member |-> None, arguments |-> None]

\* ^(?:(?P<prefix>.+)\.)?(?P<member>...)$ for a member pattern that matches
\* no '.': the member starts after the last '.', and the prefix before
\* that '.' is any one or more characters; without a '.' the whole text is
\* the member.
match_prefix_member_of(IsMember(_), s) ==
    LET dot == rfind(s, ".")
    IN IF dot = -1
       THEN IF IsMember(s)
            THEN [ok |-> TRUE, prefix |-> None, member |-> s,
                  arguments |-> None]
            ELSE NoSignature
       ELSE IF dot >= 1 /\ IsMember(SliceFrom(s, dot + 1))
            THEN [ok |-> TRUE, prefix |-> SubSeq(s, 1, dot),
                  member |-> SliceFrom(s, dot + 1), arguments |-> None]
            ELSE NoSignature

\* The pattern above followed by (?:\((?P<arguments>[^)]*)\))?$ .  The
\* text holds at most one '(', so the group matches from that '(' when the
\* text ends in ')' and no ')' stands in between; arguments is the text of
\* the group.
match_callable_of(IsMember(_), s) ==
    LET open == {i \in DOMAIN s : s[i] = "("}
        p == CHOOSE i \in open : TRUE
        head == match_prefix_member_of(IsMember, SubSeq(s, 1, p - 1))
    IN IF /\ open # {}
          /\ s[Len(s)] = ")"
          /\ \A i \in (p + 1)..(Len(s) - 1) : s[i] # ")"
          /\ head.ok
       THEN [head EXCEPT !.arguments = SubSeq(s, p + 1, Len(s) - 1)]
       ELSE match_prefix_member_of(IsMember, s)

\* DotNetObjectNested.signature_pattern
match_prefix_member(s) == match_prefix_member_of(IsName, s)

\* DotNetCallable.signature_pattern, which DotNetMethod, DotNetProperty,
\* DotNetField, DotNetEvent and DotNetOperator inherit.
match_callable(s) == match_callable_of(IsName, s)

\* The pattern of the constructor without the alternative \#ctor.
match_constructor_name_only(s) == match_callable_of(IsName, s)

\* DotNetConstructor.signature_pattern
match_constructor(s) == match_callable_of(IsConstructorMember, s)

\* cls.signature_pattern of the class registered under objtype, matched.
match_signature(objtype, signature) ==
    IF objtype \in nested_types
    THEN match_prefix_member(signature)
    ELSE IF objtype \in constructor_types
         THEN match_constructor(signature)
         ELSE match_callable(signature)

\* re.split(r'\,\s+', text): the pieces between the commas that whitespace
\* follows; the whitespace goes with the comma.  A text without such a
\* comma, the empty text included, is one piece.
RECURSIVE re_split(_)
re_split(text) ==
    LET at == {i \in 1..(Len(text) - 1) :
                  text[i] = "," /\ text[i + 1] \in Whitespace}
        i == CHOOSE j \in at : \A k \in at : j <= k
    IN IF at = {} THEN <<text>>
       ELSE <<SubSeq(text, 1, i - 1)>>
                \o re_split(lstrip_space(SliceFrom(text, i)))

\* cls.parse_signature(signature) of the class registered under objtype:
\* the DotNetSignature, whose arguments is None (arguments_none) or a list
\* of strings; ok is FALSE when ValueError is raised.
parse_signature(objtype, signature) ==
    LET groups == match_signature(objtype, signature)
    IN [ok |-> groups.ok, prefix |-> groups.prefix,
        member |-> groups.member,
        arguments_none |-> groups.arguments = None,
        arguments |-> IF groups.arguments = None
                      THEN << >>
                      ELSE re_split(groups.arguments)]

(***************************************************************************)
(* DotNetObject.handle_signature.                                          *)
(***************************************************************************)
\* DotNetSignature.full_name
sig_full_name(prefix, member) ==
    IF prefix # None THEN DotJoin(prefix, member) ELSE member

\* handle_signature with the written prefix kept in front of the member.
handle_signature_written_prefix(objtype, sig, dn_prefix) ==
    LET parsed == parse_signature(objtype, strip(sig))
        prefix == IF dn_prefix # None /\ parsed.prefix # None
                  THEN DotJoin(dn_prefix, parsed.prefix)
                  ELSE IF dn_prefix # None THEN dn_prefix ELSE parsed.prefix
    IN IF ~parsed.ok
       THEN [ok |-> FALSE, name |-> <<None, None>>]
       ELSE [ok |-> TRUE,
             name |-> <<sig_full_name(prefix, parsed.member),
                        IF objtype \in nested_types
                        THEN sig_full_name(prefix, parsed.member)
                        ELSE prefix>>]

\* What handle_signature returns for the text sig when the current prefix
\* is dn_prefix: ok is FALSE when ValueError is raised, else name is the
\* pair returned.
handle_signature(objtype, sig, dn_prefix) ==
    LET parsed == parse_signature(objtype, strip(sig))
        prefix == IF dn_prefix # None THEN dn_prefix ELSE parsed.prefix
    IN IF ~parsed.ok
       THEN [ok |-> FALSE, name |-> <<None, None>>]
       ELSE IF objtype \in nested_types
            THEN [ok |-> TRUE,
                  name |-> <<sig_full_name(prefix, parsed.member),
                             sig_full_name(prefix, parsed.member)>>]
            ELSE [ok |-> TRUE,
                  name |-> <<sig_full_name(prefix, parsed.member), prefix>>]

\* The warning without the text of the signature.
parse_warning_no_text(doc, sig) == [typ |-> NoType, name |-> None, doc |-> doc]

\* self.env.warn(self.env.docname, 'Parsing signature failed: "{}"'
\* .format(sig), self.lineno): the warning of a document, with no object
\* type, carrying the text.
parse_warning(doc, sig) == [typ |-> NoType, name |-> sig, doc |-> doc]

(***************************************************************************)
(* DotNetObjectNested.before_content and after_content.                    *)
(***************************************************************************)
\* before_content with 'dn:prefix' assigned in the except clause instead of
\* the finally clause.
before_content_no_finally(ctx, names) ==
    IF names # << >>
    THEN LET prefix == names[Len(names)][2]
         IN IF ctx.has_prefixes
            THEN [ctx EXCEPT !.prefixes = Append(ctx.prefixes, prefix)]
            ELSE [has_prefixes |-> TRUE, prefixes |-> <<prefix>>,
                  prefix |-> prefix]
    ELSE ctx

\* before_content when self.names is names: the prefix of the last name is
\* appended to 'dn:prefixes' (the list is created on KeyError) and becomes
\* 'dn:prefix'; nothing happens when names is empty.
before_content(ctx, names) ==
    IF names # << >>
    THEN LET prefix == names[Len(names)][2]
         IN [has_prefixes |-> TRUE,
             prefixes |-> IF ctx.has_prefixes
                          THEN Append(ctx.prefixes, prefix)
                          ELSE <<prefix>>,
             prefix |-> prefix]
    ELSE ctx

\* The exception that the try block of after_content raises: KeyError
\* without the key 'dn:prefixes', IndexError from pop() on an empty list
\* and from [-1] on a list that the pop emptied.
after_content_try(ctx) ==
    IF ~ctx.has_prefixes THEN "KeyError"
    ELSE IF Len(ctx.prefixes) <= 1 THEN "IndexError"
         ELSE "none"

\* An except clause that names KeyError only.
after_content_except_key_error == {"KeyError"}

\* except (KeyError, IndexError)
after_content_except == {"KeyError", "IndexError"}

\* after_content: the context it leaves and how it ends.
after_content(ctx) ==
    LET exception == after_content_try(ctx)
        popped == SubSeq(ctx.prefixes, 1, Len(ctx.prefixes) - 1)
    IN IF exception = "none"
       THEN [ctx |-> [has_prefixes |-> TRUE, prefixes |-> popped,
                      prefix |-> popped[Len(popped)]],
             ret |-> ReturnNone]
       ELSE IF exception \in after_content_except
            THEN [ctx |-> [has_prefixes |-> TRUE, prefixes |-> << >>,
                           prefix |-> None],
                  ret |-> ReturnNone]
            ELSE [ctx |-> [ctx EXCEPT !.prefixes = popped],
                  ret |-> Raise(exception)]

(***************************************************************************)
(* Directives with content: the host runs handle_signature, then           *)
(* add_target_and_index for a name it got, then before_content, parses     *)
(* the content (the directives inside run in turn) and calls               *)
(* after_content.  A role in the content takes 'dn:prefix' from            *)
(* env.ref_context when its node is made.                                  *)
(***************************************************************************)
\* A text that no pattern matches.
str_A_B == <<"A", " ", "B">>

\* Directive names (self.objtype) of the declarations.
ScopeTypes == {"namespace", "class", "method"}

\* Signatures of the declarations.
ScopeSigs == {str_A, str_T, str_BT, str_A_B}

\* The references written in the content: target and role.
ScopeTargets == {str_T}

ScopeRoles == {"meth"}

\* A directive objtype with signature sig starts: everything up to the
\* parsing of its content.  ctx_before keeps the ref_context that the
\* directive found.
RunDirective(objtype, sig) ==
    /\ Building
    /\ docname # NoDoc
    /\ ndecl < MaxDecls
    /\ LET handled == handle_signature(objtype, sig, ref_context.prefix)
           names == IF handled.ok THEN <<handled.name>> ELSE << >>
           name == handled.name[1]
       IN /\ IF handled.ok
             THEN IF target_name(objtype, name) \notin ids
                  THEN /\ ids' = ids \cup {target_name(objtype, name)}
                       /\ warnings' = warnings
                                         \o duplicate_warning(objects, name)
                       /\ objects' = update_objects(objects, name, docname,
                                                    objtype)
                  ELSE UNCHANGED <<ids, warnings, objects>>
             ELSE /\ warnings' = Append(warnings,
                                        parse_warning(docname, sig))
                  /\ UNCHANGED <<ids, objects>>
          /\ ref_context' = IF objtype \in nested_types
                            THEN before_content(ref_context, names)
                            ELSE ref_context
          /\ running' = Append(running,
                               [objtype |-> objtype, sig |-> sig,
                                ok |-> handled.ok,
                                ctx_before |-> ref_context])
          /\ last' = [NoCall EXCEPT !.op = "run", !.name = name,
                                    !.typ = objtype, !.doc = docname,
                                    !.text = sig,
                                    !.prefix = ref_context.prefix]
    /\ ndecl' = ndecl + 1
    /\ UNCHANGED docname

\* The content of the innermost running directive ends.
AfterContent ==
    /\ Building
    /\ running # << >>
    /\ LET frame == running[Len(running)]
           done == after_content(ref_context)
       IN /\ ref_context' = IF frame.objtype \in nested_types
                            THEN done.ctx
                            ELSE ref_context
          /\ last' = [NoCall EXCEPT
                         !.op = "after_content", !.typ = frame.objtype,
                         !.text = frame.sig, !.doc = docname,
                         !.ret = IF frame.objtype \in nested_types
                                 THEN done.ret
                                 ELSE ReturnNone]
    /\ running' = SubSeq(running, 1, Len(running) - 1)
    /\ UNCHANGED <<objects, docname, ids, warnings, ndecl>>

NextScope ==
    \/ \E doc \in ResolveDocs : ReadDoc(doc)
    \/ \E objtype \in ScopeTypes, sig \in ScopeSigs :
           RunDirective(objtype, sig)
    \/ AfterContent
    \/ \E name \in ScopeTargets, obj_type \in ScopeRoles,
          searchorder \in {0, 1} :
           FindObj(ref_context.prefix, name, obj_type, searchorder)
    \/ \E node \in {n \in RoleNodes : n.target \in ScopeTargets},
          obj_type \in ScopeRoles :
           ResolveXref(ref_context.prefix, node, obj_type)
    \/ \E target \in ScopeTargets :
           ResolveAnyXref(ref_context.prefix, target)

SpecScope == Init /\ [][NextScope]_vars

(***************************************************************************)
(* Signatures on their own: parse_signature and handle_signature applied   *)
(* to the text of a declaration of a given kind, with a given current      *)
(* prefix.                                                                 *)
(***************************************************************************)
sig_Foo_Bar ==
    <<"F", "o", "o", ".", "B", "a", "r">>

sig_Foo_Bar_call ==
    <<"F", "o", "o", ".", "B", "a", "r", "(", ")">>

sig_Foo_Bar_args ==
    <<"F", "o", "o", ".", "B", "a", "r", "(", "a", "r", "g", "1", ",",
      " ", "a", "r", "g", "2", ")">>

sig_Foo_Bar_args_tight ==
    <<"F", "o", "o", ".", "B", "a", "r", "(", "a", "r", "g", "1", ",",
      "a", "r", "g", "2", ")">>

sig_ctor ==
    <<"F", "o", "o", ".", "B", "a", "r", ".", "#", "c", "t", "o", "r">>

sig_ctor_args ==
    <<"F", "o", "o", ".", "B", "a", "r", ".", "#", "c", "t", "o", "r",
      "(", "a", "r", "g", "1", ")">>

sig_ctor_glued ==
    <<"F", "o", "o", ".", "B", "a", "r", "#", "c", "t", "o", "r">>

sig_operator_le ==
    <<"F", "o", "o", ".", "o", "p", "e", "r", "a", "t", "o", "r", " ",
      "<", "=">>

sig_operator_true ==
    <<"F", "o", "o", ".", "o", "p", "e", "r", "a", "t", "o", "r", " ",
      "t", "r", "u", "e">>

sig_operator_implicit ==
    <<"F", "o", "o", ".", "i", "m", "p", "l", "i", "c", "i", "t", " ",
      "o", "p", "e", "r", "a", "t", "o", "r", " ", "B", "a", "r", ".",
      "B", "a", "z">>

sig_operator_foo ==
    <<"F", "o", "o", ".", "o", "p", "e", "r", "a", "t", "o", "r", " ",
      "f", "o", "o">>

sig_B_C ==
    <<"B", ".", "C">>

\* The texts of the declarations.
SignatureTexts ==
    {sig_Foo_Bar, sig_Foo_Bar_call, sig_Foo_Bar_args, sig_Foo_Bar_args_tight,
     sig_ctor, sig_ctor_args, sig_ctor_glued, sig_operator_le,
     sig_operator_true, sig_operator_implicit, sig_operator_foo, sig_B_C,
     str_T, str_A_B}

\* Directive names (self.objtype) of the declarations.
SignatureTypes == {"class", "method", "constructor", "ctor", "operator", "op"}

\* ref_context.get('dn:prefix') when the declaration is met.
SignaturePrefixes == {None, str_A}

\* A declaration of kind objtype with text sig is about to be handled while
\* the current prefix is prefix.
InitSignature ==
    /\ objects = << >>
    /\ docname = NoDoc
    /\ ids = {}
    /\ warnings = << >>
    /\ ndecl = 0
    /\ ref_context = NoContext
    /\ running = << >>
    /\ \E objtype \in SignatureTypes, sig \in SignatureTexts,
          prefix \in SignaturePrefixes :
           last = [NoCall EXCEPT !.typ = objtype, !.text = sig,
                                 !.prefix = prefix]

\* cls.parse_signature(sig) is called.
ParseSignature ==
    /\ last.op = "none"
    /\ last' = [last EXCEPT !.op = "parse_signature",
                            !.ret = parse_signature(last.typ, last.text)]
    /\ UNCHANGED <<objects, docname, ids, warnings, ndecl, ref_context,
                   running>>

\* handle_signature(sig, signode) is called.
HandleSignature ==
    /\ last.op = "none"
    /\ last' = [last EXCEPT !.op = "handle_signature",
                            !.ret = handle_signature(last.typ, last.text,
                                                     last.prefix)]
    /\ UNCHANGED <<objects, docname, ids, warnings, ndecl, ref_context,
                   running>>

NextSignature == ParseSignature \/ HandleSignature

SpecSignature == InitSignature /\ [][NextSignature]_vars

(***************************************************************************)
(* Vocabulary of the properties.                                           *)
(***************************************************************************)
\* The kind a directive or role name stands for: its place in _domain_types.
KindOf(objtype) ==
    CHOOSE j \in DOMAIN domain_types :
        objtype \in {domain_types[j].short_name, domain_types[j].long_name}

\* Some entry of objs has this name and is of this kind.
RegisteredAs(objs, name, kind) ==
    \E i \in DOMAIN objs : objs[i].name = name /\ KindOf(objs[i].typ) = kind

\* Some entry of objs has this name.
Registered(objs, name) == \E i \in DOMAIN objs : objs[i].name = name

\* The entry of objs with this name.
EntryOf(objs, name) == objs[CHOOSE i \in DOMAIN objs : objs[i].name = name]

\* The step is a run of add_target_and_index / of clear_doc.
AddStep == last'.op = "add_target_and_index"

ClearStep == last'.op = "clear_doc"

\* The state is the one right after a lookup in the given mode.
Looked(order) == last.op = "find_obj" /\ last.order = order

\* current_prefix + '.' + target of the lookup just made (target alone when
\* there is no current prefix).
Compound ==
    IF last.prefix = None THEN last.name
    ELSE last.prefix \o <<".">> \o last.name

\* The positions of the registry whose name ends in '.' + target.
SuffixPositions ==
    {i \in DOMAIN objects :
        /\ Len(objects[i].name) > Len(last.name)
        /\ SubSeq(objects[i].name, Len(objects[i].name) - Len(last.name),
                  Len(objects[i].name)) = <<".">> \o last.name}

\* Exact mode reached the suffix scan: neither prefix.target nor target is
\* registered under the requested kind.
ScanReached ==
    /\ Looked(1)
    /\ ~RegisteredAs(objects, Compound, KindOf(last.typ))
    /\ ~RegisteredAs(objects, last.name, KindOf(last.typ))

\* The step declares, from a document that has not declared it yet, a kind
\* and name that the registry holds from another document.
SecondDeclaration ==
    /\ AddStep
    /\ target_name(last'.typ, last'.name) \notin ids
    /\ \E i \in DOMAIN objects :
          /\ objects[i].name = last'.name
          /\ KindOf(objects[i].typ) = KindOf(last'.typ)
          /\ objects[i].doc # last'.doc

(***************************************************************************)
(* C1.  Duplicate registration keeps the first occurrence: when the same   *)
(* kind and name is declared a second time from a different document,      *)
(* exactly one duplicate warning is emitted and the registry entry of the  *)
(* name still carries the document of the first declaration.               *)
(***************************************************************************)
C1_FirstRegistrationStands ==
    [][SecondDeclaration =>
          /\ Len(warnings') = Len(warnings) + 1
          /\ Registered(objects', last'.name)
          /\ EntryOf(objects', last'.name).doc
                 = EntryOf(objects, last'.name).doc]_vars

\* C1 as the code has it: exactly one duplicate warning is emitted, naming
\* the document of the first declaration, and the registry entry of the name
\* then carries the document of the second declaration.
C1_LastRegistrationStands ==
    [][SecondDeclaration =>
          /\ Len(warnings') = Len(warnings) + 1
          /\ SubSeq(warnings', 1, Len(warnings)) = warnings
          /\ warnings'[Len(warnings')].name = last'.name
          /\ warnings'[Len(warnings')].doc = EntryOf(objects, last'.name).doc
          /\ Registered(objects', last'.name)
          /\ EntryOf(objects', last'.name).doc = last'.doc
          /\ Cardinality({i \in DOMAIN objects' :
                             objects'[i].name = last'.name}) = 1]_vars

C1_Witness ==
    /\ last.op = "add_target_and_index"
    /\ ndecl = 2
    /\ Len(warnings) = 1
    /\ warnings[1].name = last.name
    /\ KindOf(warnings[1].typ) = KindOf(last.typ)
    /\ warnings[1].doc # last.doc
    /\ Registered(objects, last.name)
    /\ EntryOf(objects, last.name).doc = last.doc

(***************************************************************************)
(* C2.  The registry is keyed by kind and name: declarations of different  *)
(* kinds that share a fully-qualified name are all kept, and resolving N   *)
(* with prefix P under each declared kind finds an entry of that kind.     *)
(* Stated for the document being read: a kind and name P.N it has declared *)
(* resolves, from prefix P, to an entry of that kind.                      *)
(***************************************************************************)
C2_KeyedByKindAndName ==
    /\ \A full_name \in FullNames, objtype \in DeclTypes :
           target_name(objtype, full_name) \in ids
              => RegisteredAs(objects, full_name, KindOf(objtype))
    /\ (/\ last.op = "find_obj"
        /\ last.prefix # None
        /\ target_name(last.typ, Compound) \in ids)
           => /\ last.ret.tag = "found"
              /\ KindOf(last.ret.typ) = KindOf(last.typ)

(***************************************************************************)
(* C3.  Whenever a declaration is registered whose kind and name is        *)
(* already in the registry, whether the earlier declaration is in the same *)
(* document or in another one, a duplicate warning naming the prior        *)
(* document is emitted, and the build continues.                           *)
(***************************************************************************)
C3_WarnsOnEveryDuplicate ==
    [][AddStep =>
          \A i \in DOMAIN objects :
              (/\ objects[i].name = last'.name
               /\ KindOf(objects[i].typ) = KindOf(last'.typ))
                  => /\ warnings' = Append(warnings,
                                           [typ  |-> objects[i].typ,
                                            name |-> last'.name,
                                            doc  |-> objects[i].doc])
                     /\ ndecl' = ndecl + 1]_vars

\* C3 as the code has it: the warning naming the prior document is emitted
\* when the document being read has not itself declared that kind and name
\* before, and the build continues; a declaration the same document has
\* already made is skipped, without a warning and without touching the
\* registry.
C3_WarnsOnDuplicateOfOtherDeclaration ==
    [][AddStep =>
          \A i \in DOMAIN objects :
              (/\ objects[i].name = last'.name
               /\ KindOf(objects[i].typ) = KindOf(last'.typ))
                  => /\ ndecl' = ndecl + 1
                     /\ IF target_name(last'.typ, last'.name) \notin ids
                        THEN warnings' = Append(warnings,
                                                [typ  |-> objects[i].typ,
                                                 name |-> last'.name,
                                                 doc  |-> objects[i].doc])
                        ELSE /\ objects[i].doc = last'.doc
                             /\ warnings' = warnings
                             /\ objects' = objects]_vars

C3_Witness ==
    /\ last.op = "add_target_and_index"
    /\ last.doc = "d2"
    /\ last.typ = "meth"
    /\ last.name = str_AT
    /\ ndecl = 2
    /\ warnings = << [typ |-> "method", name |-> str_AT, doc |-> "d1"] >>

(***************************************************************************)
(* C4.  clear_doc(D) removes every registry entry whose document is D and  *)
(* leaves every entry of any other document unchanged, so that those       *)
(* entries resolve exactly as before the eviction.                         *)
(***************************************************************************)
C4_ClearDocFrame ==
    [][ClearStep =>
          /\ \A j \in DOMAIN objects' : objects'[j].doc # last'.doc
          /\ \A j \in DOMAIN objects' :
                 \E i \in DOMAIN objects : objects[i] = objects'[j]
          /\ \A i \in DOMAIN objects :
                 objects[i].doc # last'.doc
                    => /\ \E j \in DOMAIN objects' : objects'[j] = objects[i]
                       /\ \A order \in {0, 1} :
                            /\ find_obj(objects', None, objects[i].name,
                                        objects[i].typ, order)
                                 = find_obj(objects, None, objects[i].name,
                                            objects[i].typ, order)
                            /\ find_obj(objects', None, objects[i].name,
                                        objects[i].typ, order)
                                 = [tag |-> "found",
                                    name |-> objects[i].name,
                                    doc |-> objects[i].doc,
                                    typ |-> objects[i].typ]]_vars

C4_Witness ==
    /\ last.op = "clear_doc"
    /\ last.doc = "d1"
    /\ ndecl = 2
    /\ warnings = << >>
    /\ Len(objects) = 1
    /\ objects[1].doc = "d2"

(***************************************************************************)
(* C5.  Exact mode (searchorder 1) prefers the scope-relative match: if    *)
(* both current_prefix.target and target are registered under the          *)
(* requested kind, find_obj returns current_prefix.target; target alone is *)
(* returned only when the compound name is not registered under that kind. *)
(***************************************************************************)
C5_ExactPrefersScope ==
    (Looked(1) /\ last.prefix # None)
        => /\ (/\ RegisteredAs(objects, Compound, KindOf(last.typ))
               /\ RegisteredAs(objects, last.name, KindOf(last.typ)))
                  => (last.ret.tag = "found" /\ last.ret.name = Compound)
           /\ (last.ret.tag = "found" /\ last.ret.name = last.name)
                  => ~RegisteredAs(objects, Compound, KindOf(last.typ))

C5_Witness ==
    /\ Looked(1)
    /\ last.prefix = str_A
    /\ last.name = str_T
    /\ RegisteredAs(objects, str_AT, KindOf(last.typ))
    /\ RegisteredAs(objects, str_T, KindOf(last.typ))
    /\ last.ret.name = str_AT

(***************************************************************************)
(* C6.  Default mode (searchorder 0) prefers the absolute match: if both   *)
(* target alone and current_prefix.target are registered, find_obj returns *)
(* target alone; the compound name is returned only when target alone is   *)
(* not registered.                                                         *)
(***************************************************************************)
C6_DefaultPrefersAbsolute ==
    (Looked(0) /\ last.prefix # None)
        => /\ (Registered(objects, Compound) /\ Registered(objects, last.name))
                  => (last.ret.tag = "found" /\ last.ret.name = last.name)
           /\ (last.ret.tag = "found" /\ last.ret.name = Compound)
                  => ~Registered(objects, last.name)

C6_Witness ==
    /\ Looked(0)
    /\ last.prefix = str_AB
    /\ last.name = str_T
    /\ Registered(objects, str_ABT)
    /\ Registered(objects, str_T)
    /\ last.ret.name = str_T

(***************************************************************************)
(* C7.  Default mode respects the kind filter: a default-mode lookup with  *)
(* a kind filter never returns an entry whose recorded kind is not the     *)
(* kind of the filter.                                                     *)
(***************************************************************************)
C7_DefaultRespectsKind ==
    (Looked(0) /\ last.typ # NoType /\ last.ret.tag = "found")
        => KindOf(last.ret.typ) = KindOf(last.typ)

(***************************************************************************)
(* C8.  The exact-mode suffix scan respects the kind filter: when neither  *)
(* prefix.target nor target is registered under the requested kind, the    *)
(* name the scan returns belongs to an entry of the requested kind, and    *)
(* the result is NotFound when no entry of that kind has a name ending in  *)
(* '.' + target.                                                           *)
(***************************************************************************)
C8_SuffixScanRespectsKind ==
    ScanReached
        => /\ last.ret.tag = "found"
                  => KindOf(last.ret.typ) = KindOf(last.typ)
           /\ (\A i \in SuffixPositions :
                   KindOf(objects[i].typ) # KindOf(last.typ))
                  => last.ret = ReturnNone

(***************************************************************************)
(* C9.  When the exact-mode suffix scan finds several registered names     *)
(* ending in '.' + target, the name returned is the first of them in       *)
(* registry iteration order.                                               *)
(***************************************************************************)
C9_SuffixScanReturnsFirst ==
    (ScanReached /\ SuffixPositions # {})
        => /\ last.ret.tag = "found"
           /\ last.ret.name
                = objects[CHOOSE i \in SuffixPositions :
                              \A j \in SuffixPositions : i <= j].name

\* C9 as the code has it: the name returned is the last of them in registry
\* iteration order.
C9_SuffixScanReturnsLast ==
    (ScanReached /\ SuffixPositions # {})
        => /\ last.ret.tag = "found"
           /\ last.ret.name
                = objects[CHOOSE i \in SuffixPositions :
                              \A j \in SuffixPositions : i >= j].name

C9_Witness ==
    /\ ScanReached
    /\ Cardinality(SuffixPositions) >= 2
    /\ last.ret.tag = "found"
    /\ last.ret.name
         # objects[CHOOSE i \in SuffixPositions :
                      \A j \in SuffixPositions : i <= j].name

(***************************************************************************)
(* C10.  The suffix scan is used only in exact mode: a default-mode lookup *)
(* returns target, or current_prefix.target, or NotFound, never a name     *)
(* found in an enclosing scope or by suffix match; with prefix A.B and     *)
(* only A.T registered, looking up T in default mode is NotFound.          *)
(***************************************************************************)
C10_DefaultNeverScans ==
    Looked(0)
        => /\ \/ last.ret = ReturnNone
              \/ /\ last.ret.tag = "found"
                 /\ last.ret.name \in {last.name, Compound}
           /\ (/\ last.prefix = str_AB
               /\ last.name = str_T
               /\ \A i \in DOMAIN objects : objects[i].name = str_AT)
                  => last.ret = ReturnNone

C10_Witness ==
    /\ Looked(0)
    /\ last.prefix = str_AB
    /\ last.name = str_T
    /\ Len(objects) = 1
    /\ objects[1].name = str_AT
    /\ last.ret = ReturnNone

(***************************************************************************)
(* C16.  The short alias and the long alias of a kind are interchangeable  *)
(* for lookup: for every registry, prefix, target and mode, find_obj with  *)
(* the short alias as kind filter returns the same result as with the long *)
(* alias, whichever alias was used in the declaration.                     *)
(***************************************************************************)
\* The other alias of the kind of a role name.
OtherAlias(role) ==
    IF role = domain_types[KindOf(role)].short_name
    THEN domain_types[KindOf(role)].long_name
    ELSE domain_types[KindOf(role)].short_name

C16_AliasesInterchangeable ==
    last.op = "find_obj" /\ last.typ # NoType =>
        last.ret = find_obj(objects, last.prefix, last.name,
                            OtherAlias(last.typ), last.order)

\* An exact-mode lookup by one alias found an entry declared with the other
\* alias of the kind.
C16_Witness ==
    /\ Looked(1)
    /\ last.typ # NoType
    /\ last.ret.tag = "found"
    /\ last.ret.typ = OtherAlias(last.typ)
    /\ last.ret.typ # last.typ
    /\ last.ret.name \in {Compound, last.name}

(***************************************************************************)
(* Vocabulary of the properties about resolution.                          *)
(***************************************************************************)
LookupOps == {"find_obj", "resolve_xref", "resolve_any_xref"}

\* The step is a call of one of the entry points of resolution.
LookupStep == last'.op \in LookupOps

\* name without its last two characters.
Stem(name) == SubSeq(name, 1, Len(name) - 2)

(***************************************************************************)
(* C11.  Resolution is read-only: find_obj, resolve_xref and               *)
(* resolve_any_xref leave the object registry and the scope stack exactly  *)
(* as they found them, whether the lookup succeeds or not.                 *)
(***************************************************************************)
C11_ResolutionReadOnly ==
    [][LookupStep => objects' = objects /\ ref_context' = ref_context]_vars

\* Inside a scope, a reference without kind was resolved to an entry whose
\* name is not the target as written.
C11_Witness ==
    /\ last.op = "resolve_any_xref"
    /\ last.ret.tag = "results"
    /\ last.ret.name # last.name
    /\ Registered(objects, last.ret.name)
    /\ ref_context.prefixes # << >>

(***************************************************************************)
(* C12.  A target that is empty after stripping (the empty string, or just *)
(* '()') resolves to NotFound as a normal result, with no exception, in    *)
(* find_obj, in resolve_xref and in resolve_any_xref.                      *)
(***************************************************************************)
C12_EmptyTargetIsNotFound ==
    last.op \in LookupOps /\ skip_parens(last.name) = << >> =>
        last.ret.tag \in {"[]", "None"}

(***************************************************************************)
(* C13.  A single trailing '()' on the target is ignored by lookup:        *)
(* find_obj(target + '()') returns what find_obj(target) returns, and only *)
(* one trailing '()' is removed (target + '()()' is looked up as           *)
(* target + '()', which is the name of no object).                         *)
(***************************************************************************)
C13_SingleTrailingParensIgnored ==
    last.op = "find_obj" /\ EndsWith(last.name, str_Parens) =>
        IF EndsWith(Stem(last.name), str_Parens)
        THEN last.ret = ReturnNone
        ELSE last.ret = find_obj(objects, last.prefix, Stem(last.name),
                                 last.typ, last.order)

\* A target with '()()' was looked up while the target without any '()' is
\* found from the same position.
C13_Witness ==
    /\ last.op = "find_obj"
    /\ last.name = str_T \o str_Parens \o str_Parens
    /\ last.ret = ReturnNone
    /\ find_obj(objects, last.prefix, str_T, last.typ, last.order).tag
           = "found"

(***************************************************************************)
(* C14.  A reference target written as '~' + N or as '.' + N is looked up  *)
(* in the registry as N: both references resolve to whatever N resolves to *)
(* from the same position.                                                 *)
(***************************************************************************)
C14_OperatorsStripped ==
    /\ last.op = "resolve_xref"
    /\ last.text # << >>
    /\ Head(last.text) \in {"~", "."}
    => last.ret \in {resolve_xref(objects, last.prefix, Tail(last.text),
                                  last.typ, refspecific) :
                         refspecific \in BOOLEAN}

(***************************************************************************)
(* C15.  When the kind filter is none (the ':any:' lookup), resolution     *)
(* searches across all kinds and returns one match for every distinct kind *)
(* under which the target name is registered.                              *)
(***************************************************************************)
C15_AnyReturnsEveryKind ==
    last.op = "resolve_any_xref" /\ last.prefix = None =>
        \A k \in DOMAIN domain_types :
            RegisteredAs(objects, last.name, k) =>
                /\ last.ret.tag = "results"
                /\ KindOf(last.ret.typ) = k

(***************************************************************************)
(* Vocabulary of the properties about scopes.                              *)
(***************************************************************************)
\* The step starts a directive / ends the content of one.
RunStep == last'.op = "run"

AfterStep == last'.op = "after_content"

\* What the signature of a running directive parses to.
SignatureOf(frame) == parse_signature(frame.objtype, strip(frame.sig))

\* The directive is a nestable declaration that parsed.
Nestable(frame) == frame.objtype \in nested_types /\ frame.ok

\* The directive was written without a prefix.
Unqualified(frame) == SignatureOf(frame).prefix = None

RECURSIVE DotPath(_)
\* '.'.join(names), for one name or more.
DotPath(names) ==
    IF Len(names) = 1 THEN names[1]
    ELSE DotJoin(DotPath(SubSeq(names, 1, Len(names) - 1)),
                 names[Len(names)])

\* The member names of the running directives, outermost first.
MembersOf(frames) ==
    [i \in DOMAIN frames |-> SignatureOf(frames[i]).member]

\* Two contexts hold the same scope stack and current prefix (a missing
\* 'dn:prefixes' counts as the empty stack).
SameScope(c1, c2) == c1.prefixes = c2.prefixes /\ c1.prefix = c2.prefix

\* The top of the scope stack, None when it is empty or absent.
TopOfStack(ctx) ==
    IF ctx.has_prefixes /\ ctx.prefixes # << >>
    THEN ctx.prefixes[Len(ctx.prefixes)]
    ELSE None

(***************************************************************************)
(* C17.  Nested declarations get compound names: a declaration with member *)
(* name M written inside the bodies of nestable declarations M1, ..., Mn   *)
(* (outermost first, each written unqualified) is registered under         *)
(* M1.M2....Mn.M, and a nestable declaration is registered under the       *)
(* prefix in force before its own scope is pushed, the scope it pushes     *)
(* being its own full name.                                                *)
(***************************************************************************)
C17_NestedCompoundNames ==
    [][/\ RunStep
       /\ running'[Len(running')].ok
       /\ Unqualified(running'[Len(running')])
       /\ \A i \in DOMAIN running :
              Nestable(running[i]) /\ Unqualified(running[i])
       => /\ last'.name = DotPath(MembersOf(running'))
          /\ Registered(objects', last'.name)
          /\ Nestable(running'[Len(running')]) =>
                /\ last'.name = sig_full_name(ref_context.prefix,
                       SignatureOf(running'[Len(running')]).member)
                /\ TopOfStack(ref_context') = last'.name
                /\ ref_context'.prefix = last'.name]_vars

(***************************************************************************)
(* C18.  Leaving the body of a successfully parsed nestable declaration    *)
(* restores the scope: after after_content, the scope stack and current    *)
(* prefix are exactly what they were before that declaration's             *)
(* before_content, at any nesting depth.                                   *)
(***************************************************************************)
C18_LeavingRestoresScope ==
    [][AfterStep /\ Nestable(running[Len(running)]) =>
          SameScope(ref_context', running[Len(running)].ctx_before)]_vars

(***************************************************************************)
(* C19.  In every reachable state, after any sequence of before_content /  *)
(* after_content calls, the current prefix (ref_context['dn:prefix'])      *)
(* equals the last element of the prefix history                           *)
(* (ref_context['dn:prefixes']), and is none when the history is empty or  *)
(* absent.                                                                 *)
(***************************************************************************)
C19_PrefixIsTopOfStack == ref_context.prefix = TopOfStack(ref_context)

\* The content of a nestable declaration ended inside two others.
C19_Witness ==
    /\ last.op = "after_content"
    /\ last.typ \in nested_types
    /\ Len(ref_context.prefixes) >= 2
    /\ ref_context.prefix = ref_context.prefixes[Len(ref_context.prefixes)]
    /\ Len(running) = Len(ref_context.prefixes)

(***************************************************************************)
(* C20.  Popping the scope stack when it is empty or was never created     *)
(* does not raise: after_content then leaves the stack empty and the       *)
(* current prefix none.                                                    *)
(***************************************************************************)
C20_PopOfEmptyStackIsCaught ==
    [][/\ AfterStep
       /\ running[Len(running)].objtype \in nested_types
       /\ ~ref_context.has_prefixes \/ ref_context.prefixes = << >>
       => /\ last'.ret = ReturnNone
          /\ ref_context'.has_prefixes
          /\ ref_context'.prefixes = << >>
          /\ ref_context'.prefix = None]_vars

\* The content of a nestable declaration that did not parse ended at the
\* top level of a document that had pushed no scope before.
C20_Witness ==
    /\ last.op = "after_content"
    /\ last.typ \in nested_types
    /\ last.text = str_A_B
    /\ running = << >>
    /\ ndecl = 1
    /\ ref_context.has_prefixes
    /\ ref_context.prefixes = << >>
    /\ ref_context.prefix = None

(***************************************************************************)
(* C21.  Only nestable kinds establish a scope: processing a declaration   *)
(* of a callable/leaf kind, including its body, leaves the scope stack and *)
(* the current prefix unchanged, so what is inside its body and the        *)
(* siblings after it see the prefix of the enclosing nestable declaration. *)
(***************************************************************************)
C21_LeafKeepsScope ==
    [][/\ RunStep /\ last'.typ \notin nested_types =>
              ref_context' = ref_context
       /\ AfterStep /\ last'.typ \notin nested_types =>
              SameScope(ref_context', running[Len(running)].ctx_before)]_vars

(***************************************************************************)
(* C22.  A declaration whose text does not match its kind's grammar is     *)
(* dropped: a 'Parsing signature failed' warning carrying the raw text is  *)
(* emitted, and the object registry is left unchanged by that declaration. *)
(***************************************************************************)
C22_FailedDeclarationDropped ==
    [][RunStep /\ ~running'[Len(running')].ok =>
          /\ objects' = objects
          /\ ids' = ids
          /\ Len(warnings') = Len(warnings) + 1
          /\ SubSeq(warnings', 1, Len(warnings)) = warnings
          /\ warnings'[Len(warnings')].typ = NoType
          /\ warnings'[Len(warnings')].name = last'.text
          /\ warnings'[Len(warnings')].doc = docname]_vars

\* A declaration that did not parse was dropped while the registry held
\* an object, inside a scope.
C22_Witness ==
    /\ last.op = "run"
    /\ ~running[Len(running)].ok
    /\ last.text = str_A_B
    /\ objects # << >>
    /\ ref_context.prefix # None
    /\ warnings # << >>
    /\ warnings[Len(warnings)].name = str_A_B

(***************************************************************************)
(* C27.  A nestable declaration whose signature fails to parse does not    *)
(* disturb the enclosing scope: after its directive has run                *)
(* (before_content, body, after_content), the scope stack and the current  *)
(* prefix are the same as before it.                                       *)
(***************************************************************************)
C27_FailedNestableKeepsScope ==
    [][/\ AfterStep
       /\ running[Len(running)].objtype \in nested_types
       /\ ~running[Len(running)].ok
       => SameScope(ref_context', running[Len(running)].ctx_before)]_vars

(***************************************************************************)
(* Vocabulary of the properties about signatures.                          *)
(***************************************************************************)
\* The state is the one right after parse_signature / handle_signature.
Parsed == last.op = "parse_signature"

Handled == last.op = "handle_signature"

str_Foo == <<"F", "o", "o">>

str_ctor == <<"#", "c", "t", "o", "r">>

\* The text up to its first '(' (the whole text without one).
WithoutArguments(text) ==
    LET open == {i \in DOMAIN text : text[i] = "("}
    IN IF open = {} THEN text
       ELSE SubSeq(text, 1, (CHOOSE i \in open : \A j \in open : i <= j) - 1)

\* The text after its last '.' (the whole text without one).
LastSegment(text) == SliceFrom(text, rfind(text, ".") + 1)

(***************************************************************************)
(* C23.  Argument splitting for callable kinds: a parenthesized list is    *)
(* split on comma followed by whitespace, so 'Foo.Bar(arg1, arg2)' has the *)
(* arguments ['arg1', 'arg2'], 'Foo.Bar()' has the empty list and          *)
(* 'Foo.Bar' has none.                                                     *)
(***************************************************************************)
C23_ArgumentsSplit ==
    Parsed /\ last.typ \notin nested_types /\ last.ret.ok =>
        /\ last.text = sig_Foo_Bar_args =>
               /\ ~last.ret.arguments_none
               /\ last.ret.arguments
                      = << <<"a", "r", "g", "1">>, <<"a", "r", "g", "2">> >>
        /\ last.text = sig_Foo_Bar_call =>
               /\ ~last.ret.arguments_none
               /\ last.ret.arguments = << >>
        /\ last.text = sig_Foo_Bar => last.ret.arguments_none

(***************************************************************************)
(* C24.  For the constructor kind the member must be exactly the literal   *)
(* '#ctor': every constructor signature that parses has member '#ctor',    *)
(* and a constructor signature whose last segment is any other name        *)
(* ('Foo.Bar', 'Foo.Bar#ctor') fails to parse.                             *)
(***************************************************************************)
C24_ConstructorMemberIsCtor ==
    Parsed /\ last.typ \in constructor_types =>
        /\ last.ret.ok => last.ret.member = str_ctor
        /\ last.text \in {sig_Foo_Bar, sig_ctor_glued} => ~last.ret.ok

\* C24 as the code has it: the member of a constructor signature that
\* parses is the literal '#ctor' or a name of letters, digits, '_' and '-'
\* ('Foo.Bar.#ctor' gives '#ctor', 'Foo.Bar' gives 'Bar'), and a last
\* segment that glues both ('Foo.Bar#ctor') fails to parse.
C24_ConstructorMemberIsCtorOrName ==
    Parsed /\ last.typ \in constructor_types =>
        /\ last.ret.ok =>
               \/ last.ret.member = str_ctor
               \/ \A i \in DOMAIN last.ret.member :
                      last.ret.member[i] \notin {"#", ".", " ", "(", ")"}
        /\ last.text \in {sig_ctor, sig_ctor_args} =>
               /\ last.ret.ok
               /\ last.ret.member = str_ctor
               /\ last.ret.prefix = sig_Foo_Bar
        /\ last.text = sig_Foo_Bar =>
               /\ last.ret.ok
               /\ last.ret.member = LastSegment(sig_Foo_Bar)
               /\ last.ret.prefix = str_Foo
        /\ last.text = sig_ctor_glued => ~last.ret.ok

\* A constructor signature with a general name as its member was parsed.
C24_Witness ==
    /\ Parsed
    /\ last.typ \in constructor_types
    /\ last.text = sig_Foo_Bar
    /\ last.ret.ok
    /\ last.ret.member # str_ctor

(***************************************************************************)
(* C25.  The operator kind parses operator phrases: 'Foo.operator <=',     *)
(* 'Foo.operator true' and 'Foo.implicit operator Bar.Baz' parse with      *)
(* prefix 'Foo' and a member that is the whole operator phrase, while      *)
(* 'Foo.operator foo' fails to parse.                                      *)
(***************************************************************************)
C25_OperatorPhrasesParse ==
    Parsed /\ last.typ \in {"op", "operator"} =>
        /\ last.text \in {sig_operator_le, sig_operator_true,
                          sig_operator_implicit} =>
               /\ last.ret.ok
               /\ last.ret.prefix = str_Foo
               /\ last.ret.member = SliceFrom(last.text, Len(str_Foo) + 1)
        /\ last.text = sig_operator_foo => ~last.ret.ok

(***************************************************************************)
(* C28.  When a current prefix P is set, handle_signature registers the    *)
(* declaration under P + '.' + member and discards any qualifying prefix   *)
(* written in the declaration text ('B.C' inside scope A gives 'A.C');     *)
(* when no current prefix is set, the written prefix is kept and the       *)
(* registered name is the declaration text without its argument list.      *)
(***************************************************************************)
C28_CurrentPrefixReplacesWritten ==
    Handled /\ last.ret.ok =>
        last.ret.name[1]
            = IF last.prefix # None
              THEN DotJoin(last.prefix,
                           LastSegment(WithoutArguments(last.text)))
              ELSE WithoutArguments(last.text)

\* 'B.C' was declared while the current prefix is 'A'.
C28_Witness ==
    /\ Handled
    /\ last.text = sig_B_C
    /\ last.prefix = str_A
    /\ last.ret.ok
    /\ last.ret.name[1] = <<"A", ".", "C">>

(***************************************************************************)
(* DotNetXRefMixin: the type references of the documentation fields.       *)
(***************************************************************************)
NoMatch == [ok |-> FALSE, first |-> None, second |-> None]

\* pattern = ^(first [^{]+?) open (second .+) close $  matched against s:
\* first is not greedy and holds no '{', so it ends before the first open
\* that has at least one character before it, none of them a '{', and
\* that leaves room for a second group of one character or more; the last
\* character of s is close.
match_pair(s, open, close) ==
    LET at == {i \in 2..(Len(s) - 2) :
                  /\ s[i] = open
                  /\ \A j \in 1..(i - 1) : s[j] # "{"}
        i == CHOOSE j \in at : \A k \in at : j <= k
    IN IF at = {} \/ s[Len(s)] # close THEN NoMatch
       ELSE [ok |-> TRUE, first |-> SubSeq(s, 1, i - 1),
             second |-> SubSeq(s, i + 1, Len(s) - 1)]

\* nested_pattern.match(current): first is parent, second is inner.
nested_pattern(current) == match_pair(current, "{", "}")

\* alias_pattern.match(ref): first is target, second is alias.
alias_pattern(ref) == match_pair(ref, "<", ">")

\* An alias_target that never finds an alias.
alias_target_none(ref) == [target |-> ref, alias |-> None]

\* alias_target(ref) inside split_refs: the pair (target, alias).
alias_target(ref) ==
    LET found == alias_pattern(ref)
    IN IF found.ok THEN [target |-> found.first, alias |-> found.second]
       ELSE [target |-> ref, alias |-> None]

\* The while loop of split_refs from the value current has.
RECURSIVE split_refs_loop(_)
split_refs_loop(current) ==
    LET found == nested_pattern(current)
    IN IF ~found.ok THEN <<alias_target(current)>>
       ELSE <<alias_target(found.first)>> \o split_refs_loop(found.second)

\* split_refs(target): the list refs.
split_refs(target) == split_refs_loop(target)

\* refs.reverse()
reverse(refs) == [i \in 1..Len(refs) |-> refs[Len(refs) + 1 - i]]

\* The pending_xref node make_xref builds for one pair of refs: reftarget
\* is target_alias and the text inside the node is target_name_.
pending_xref(ref) ==
    LET operator == ref.alias = None /\ ref.target # << >>
                        /\ ref.target[1] \in {".", "~"}
        prefix == ref.target[1]
        target_name_ == IF operator THEN SliceFrom(ref.target, 1)
                        ELSE ref.target
        target_alias ==
            IF operator
            THEN IF prefix = "." THEN SliceFrom(target_name_, 1)
                 ELSE SliceFrom(target_name_, rfind(target_name_, ".") + 1)
            ELSE IF ref.alias = None THEN target_name_ ELSE ref.alias
    IN [reftarget |-> target_alias, text |-> target_name_,
        refspecific |-> TRUE]

\* The for loop of make_xref over the reversed refs: field_node is the
\* nodes built so far, in the order of the document (every new ref_node is
\* put in front of the inline node that holds the earlier ones).
RECURSIVE field_nodes(_, _)
field_nodes(refs, field_node) ==
    IF refs = << >> THEN field_node
    ELSE field_nodes(Tail(refs), <<pending_xref(Head(refs))>> \o field_node)

\* make_xref(rolename, domain, target_name) with the default innernode and
\* no contnode: without a role name the plain text, else the references.
make_xref(rolename, target) ==
    IF rolename = ""
    THEN [tag |-> "innernode", text |-> target, xrefs |-> << >>]
    ELSE [tag |-> "field_node", text |-> None,
          xrefs |-> field_nodes(reverse(split_refs(target)), << >>)]

(***************************************************************************)
(* The specification of the field references: split_refs and make_xref as  *)
(* functions of the type text of a field.                                  *)
(***************************************************************************)
\* Longest type text drawn character by character.
MaxRefLen == 4

\* Deepest nesting of the type texts built from levels.
MaxLevels == 3

RefChars == {"T", "<", ">", "{", "}"}

\* Every text of RefChars up to MaxRefLen characters.
RawRefs == UNION {[1..n -> RefChars] : n \in 0..MaxRefLen}

str_F1 == <<"F", "1">>

str_F == <<"F">>

\* One nesting level as it is written: a name, with or without an alias.
Levels == [target : {str_T, str_F1}, alias : {None, str_F}]

\* The lists of one to MaxLevels levels, outermost level first.
LevelLists == UNION {[1..n -> Levels] : n \in 1..MaxLevels}

\* The text of a list of levels: Name or Name<Alias>, the levels after
\* the first inside '{' and '}'.
RECURSIVE Render(_)
Render(levels) ==
    LET level == Head(levels)
        own == IF level.alias = None THEN level.target
               ELSE level.target \o <<"<">> \o level.alias \o <<">">>
    IN IF Len(levels) = 1 THEN own
       ELSE own \o <<"{">> \o Render(Tail(levels)) \o <<"}">>

RenderedRefs == {Render(levels) : levels \in LevelLists}

\* Names written with a leading reference operator.
OperatorRefs ==
    {<<op>> \o n : op \in {".", "~"},
                   n \in {str_T, str_AB, str_A \o <<".">> \o str_T,
                          <<".">> \o str_T}}

FieldRefs == RawRefs \cup RenderedRefs \cup OperatorRefs

\* rolename of make_xref: typerolename / bodyrolename of the field.
FieldRoles == {"", "obj"}

InitFields ==
    /\ objects = << >>
    /\ docname = NoDoc
    /\ ids = {}
    /\ warnings = << >>
    /\ ndecl = 0
    /\ ref_context = NoContext
    /\ running = << >>
    /\ \E rolename \in FieldRoles, target \in FieldRefs :
           last = [NoCall EXCEPT !.typ = rolename, !.text = target]

\* split_refs(target) is called.
SplitRefs ==
    /\ last.op = "none"
    /\ last' = [last EXCEPT !.op = "split_refs",
                            !.ret = split_refs(last.text)]
    /\ UNCHANGED <<objects, docname, ids, warnings, ndecl, ref_context,
                   running>>

\* make_xref(rolename, domain, target) is called.
MakeXref ==
    /\ last.op = "none"
    /\ last' = [last EXCEPT !.op = "make_xref",
                            !.ret = make_xref(last.typ, last.text)]
    /\ UNCHANGED <<objects, docname, ids, warnings, ndecl, ref_context,
                   running>>

NextFields == SplitRefs \/ MakeXref

SpecFields == InitFields /\ [][NextFields]_vars

(***************************************************************************)
(* C26.  split_refs terminates for every input string and returns one      *)
(* (target, alias) pair per '{...}' nesting level, outermost first: a      *)
(* level 'Name<Alias>' yields (Name, Alias) and a level without '<...>'    *)
(* yields (Name, None).                                                    *)
(***************************************************************************)
\* The number of times c occurs in s.
Count(s, c) == Cardinality({i \in DOMAIN s : s[i] = c})

C26_SplitRefsPerLevel ==
    last.op = "split_refs" =>
        /\ Len(last.ret) \in 1..(Count(last.text, "{") + 1)
        /\ \A levels \in LevelLists :
               Render(levels) = last.text => last.ret = levels

\* 'F1<F>{F1<F>{T}}', three levels of which the innermost has no alias,
\* was split.
C26_Witness ==
    /\ last.op = "split_refs"
    /\ last.text = Render(<<[target |-> str_F1, alias |-> str_F],
                            [target |-> str_F1, alias |-> str_F],
                            [target |-> str_T, alias |-> None]>>)
    /\ Len(last.ret) = 3
    /\ last.ret[1].alias = str_F
    /\ last.ret[3] = [target |-> str_T, alias |-> None]

(***************************************************************************)
(* C29.  In make_xref a type name written with a leading reference         *)
(* operator has only that one character removed: for '.' + N the target    *)
(* of the pending reference is N, and for '~' + N the reference is built   *)
(* from N (its target is the last segment of N).                           *)
(***************************************************************************)
C29_OneOperatorCharacterRemoved ==
    /\ last.op = "make_xref"
    /\ last.typ # ""
    /\ last.text \in OperatorRefs
    => LET N == SliceFrom(last.text, 1)
       IN /\ Len(last.ret.xrefs) = 1
          /\ last.ret.xrefs[1].text = N
          /\ last.text[1] = "." => last.ret.xrefs[1].reftarget = N
          /\ last.text[1] = "~" =>
                 last.ret.xrefs[1].reftarget = LastSegment(N)

(***************************************************************************)
(* DotNetIndex: the .NET module index.                                     *)
(***************************************************************************)
\* The document names in the order of their lower-case spelling.
docname_order == <<"d1", "d2">>

\* sorted(objects.items(), key=lambda x: x[1][0].lower()): the sort is
\* stable, so the entries of one document keep the order of the registry.
RECURSIVE sorted_by_docname(_, _)
sorted_by_docname(objs, order) ==
    IF order = << >> THEN << >>
    ELSE SelectSeq(objs, LAMBDA o : o.doc = Head(order))
            \o sorted_by_docname(objs, Tail(order))

\* c.lower() for the letters of the names.
lower(c) ==
    CASE c = "A" -> "a"
      [] c = "B" -> "b"
      [] c = "T" -> "t"
      [] OTHER -> c

\* obj_name.split('.')[-1][0]
letter_of(obj_name) == SliceFrom(obj_name, rfind(obj_name, ".") + 1)[1]

\* The keys content can have, in the order sorted() gives them.
letter_order == <<"a", "b", "t">>

\* 'autoapi/' + '/'.join(obj_name.split('.')) + '/index'
index_docname(obj_name) ==
    <<"a", "u", "t", "o", "a", "p", "i", "/">>
        \o [i \in DOMAIN obj_name |->
               IF obj_name[i] = "." THEN "/" ELSE obj_name[i]]
        \o <<"/", "i", "n", "d", "e", "x">>

\* The list appended to entries for one object.
index_entry(obj_name) ==
    [name |-> obj_name, subtype |-> 0, docname |-> index_docname(obj_name),
     anchor |-> obj_name, extra |-> << >>, qualifier |-> << >>,
     synopysis |-> << >>]

\* The objects the loop of generate does not skip; docnames is {} for a
\* call without docnames.
index_objects(objs, docnames) ==
    SelectSeq(sorted_by_docname(objs, docname_order),
              LAMBDA o : /\ ~(docnames # {} /\ o.doc \notin docnames)
                         /\ o.typ = "namespace")

\* sorted(content.items()): the letters that have entries, each with its
\* entries in the order they were appended.
RECURSIVE index_content(_, _)
index_content(kept, letters) ==
    LET entries == SelectSeq(kept, LAMBDA o :
                       lower(letter_of(o.name)) = Head(letters))
        item == [letter |-> Head(letters),
                 entries |-> [i \in DOMAIN entries |->
                                 index_entry(entries[i].name)]]
    IN IF letters = << >> THEN << >>
       ELSE (IF entries = << >> THEN << >> ELSE <<item>>)
                \o index_content(kept, Tail(letters))

\* DotNetIndex.generate(docnames): (content, collapse).
generate(objs, docnames) ==
    [content |-> index_content(index_objects(objs, docnames), letter_order),
     collapse |-> FALSE]

(***************************************************************************)
(* The specification of the index: documents are read, declarations are    *)
(* registered and the index is generated.                                  *)
(***************************************************************************)
\* Full names of the declarations that the index is generated from.
IndexNames == {str_A, str_AB, str_T}

\* Directive names of the declarations (self.objtype).
IndexTypes == {"ns", "namespace", "class"}

\* The index is generated, for all documents (doc is NoDoc) or for the
\* list that holds doc.
Generate(doc) ==
    /\ last' = [NoCall EXCEPT
                   !.op = "generate", !.doc = doc,
                   !.ret = generate(objects,
                                    IF doc = NoDoc THEN {} ELSE {doc})]
    /\ UNCHANGED <<objects, docname, ids, warnings, ndecl, ref_context,
                   running>>

NextIndex ==
    \/ \E doc \in Docs : ReadDoc(doc)
    \/ \E full_name \in IndexNames, objtype \in IndexTypes :
           AddTargetAndIndex(full_name, objtype)
    \/ \E doc \in {NoDoc} \cup Docs : Generate(doc)

SpecIndex == Init /\ [][NextIndex]_vars

(***************************************************************************)
(* C30.  The .NET module index lists every registered namespace and        *)
(* nothing else: generate() yields exactly one entry per registered        *)
(* namespace declaration, whether it was declared with the short alias     *)
(* (dn:ns) or the long alias (dn:namespace), and no entry for any other    *)
(* kind.                                                                   *)
(***************************************************************************)
\* How many entries of the generated content have this name.
EntriesNamed(content, name) ==
    Cardinality({<<i, j>> \in (DOMAIN content) \X (1..MaxDecls) :
                    /\ j \in DOMAIN content[i].entries
                    /\ content[i].entries[j].name = name})

C30_IndexListsEveryNamespace ==
    last.op = "generate" /\ last.doc = NoDoc =>
        \A name \in IndexNames :
            EntriesNamed(last.ret.content, name)
                = IF RegisteredAs(objects, name, KindOf("namespace"))
                  THEN 1 ELSE 0


====
